---- MODULE Spec2Model ----
(***************************************************************************)
(* PlaylistPilot: the authorization-code variant of the playlist script    *)
(* (src/src/main.rs).  main is one sequential workflow; the model has one  *)
(* action per blocking step of main (configuration, the two console reads, *)
(* and each HTTP call), and the remote services' answers are the inputs,   *)
(* chosen with \E from small sets.                                         *)
(*                                                                         *)
(* Text is a sequence of tokens (strings).  A token is one character       *)
(* (" ", "\n", "a", and BT for the backtick, which a TLA+ string cannot   *)
(* hold) or, in an LLM answer, one lexical unit of the                     *)
(* JSON document: "{songs:[" opens the object and its list, "]}" closes    *)
(* them, and a song token stands for one {"name":..,"artist":..} object.   *)
(***************************************************************************)
EXTENDS Integers, Sequences, FiniteSets

VARIABLES
    pc,               \* the statement of main that runs next
    exit_code,        \* "running", "zero", "failure" (main returned Err), "panic" (an expect failed)
    number,           \* main's `number`
    access_token,     \* main's `access_token`
    output,           \* main's `output`: the rendered playlist listing
    response,         \* the text ask_llm returned
    cleaned_response, \* the text parse_llm_response returned
    llm_songs,        \* llm_songs.songs
    idx,              \* position of the `for song in llm_songs.songs` loop
    uris_to_add,      \* main's `uris_to_add`
    stdout,           \* the lines printed with println!, each tagged with the call it reports
    calls,            \* history: the HTTP calls issued so far, in order, with their outcome
    searched,         \* history: the (artist, track) pair of every search_song call, in order
    results,          \* history: what every search_song call returned, in order
    prompts,          \* history: the prompt of every ask_llm call
    add_bodies        \* history: the uris of every add_to_playlist call

vars == <<pc, exit_code, number, access_token, output, response, cleaned_response,
          llm_songs, idx, uris_to_add, stdout, calls, searched, results, prompts,
          add_bodies>>

\* ---------------------------------------------------------------- bounds

\* Longest text given to parse_llm_response on its own (SpecClean).
MaxLen == 4
\* Most songs in one decoded LLM answer.
MaxSongs == 2
\* Most tracks in the fetched playlist.
MaxTracks == 1

\* ---------------------------------------------------------------- helpers

Last(s) == s[Len(s)]
Front(s) == SubSeq(s, 1, Len(s) - 1)

RECURSIVE SeqsUpTo(_, _)
SeqsUpTo(S, n) ==
    IF n = 0 THEN {<<>>}
    ELSE LET shorter == SeqsUpTo(S, n - 1)
         IN  shorter \cup {Append(s, x) : s \in {t \in shorter : Len(t) = n - 1}, x \in S}

\* Result<T, E> of the Rust code: Ok(val) or Err(err).
Ok(v) == [ok |-> TRUE, val |-> v, err |-> <<>>]
Err(e) == [ok |-> FALSE, val |-> <<>>, err |-> e]

\* StatusCode::is_success: 200..=299.
is_success(status) == status >= 200 /\ status <= 299

\* What `format!("{}", status)` is for the statuses used here.
StatusText(status) ==
    CASE status = 200 -> "200 OK"
      [] status = 201 -> "201 Created"
      [] status = 401 -> "401 Unauthorized"
      [] status = 404 -> "404 Not Found"
      [] status = 500 -> "500 Internal Server Error"
      [] OTHER -> "other status"

\* An HTTP exchange as the client sees it: send() failed (transport), or a
\* response with a status whose body either decodes into the expected type
\* (decodes, with the decoded value in body) or does not.
Transport == [sent |-> FALSE, status |-> 0, decodes |-> FALSE, body |-> <<>>]
Http(status, decodes, body) ==
    [sent |-> TRUE, status |-> status, decodes |-> decodes, body |-> body]

\* ---------------------------------------------------------------- parse_llm_response

\* The backtick character.
BT == "BT"

\* The characters char::is_whitespace accepts, among those of the model.
Whitespace == {" ", "\n"}

\* str::trim_start_matches: every leading character in `set` is removed.
RECURSIVE trim_start_matches(_, _)
trim_start_matches(s, set) ==
    IF s # <<>> /\ Head(s) \in set THEN trim_start_matches(Tail(s), set) ELSE s

\* str::trim_end_matches: every trailing character in `set` is removed.
RECURSIVE trim_end_matches(_, _)
trim_end_matches(s, set) ==
    IF s # <<>> /\ Last(s) \in set THEN trim_end_matches(Front(s), set) ELSE s

\* str::trim_matches: both ends.
trim_matches(s, set) == trim_end_matches(trim_start_matches(s, set), set)

\* str::trim
trim(s) == trim_matches(s, Whitespace)

\* A slip of parse_llm_response: strip_prefix/strip_suffix semantics, one
\* backtick at most from each end.
StripOneStart(s) == IF s # <<>> /\ Head(s) = BT THEN Tail(s) ELSE s
StripOneEnd(s) == IF s # <<>> /\ Last(s) = BT THEN Front(s) ELSE s
parse_llm_response_single(resp) == Ok(StripOneEnd(StripOneStart(trim(resp))))

\* fn parse_llm_response: response.trim().trim_matches(BT), always Ok.
parse_llm_response(resp) == Ok(trim_matches(trim(resp), {BT}))

\* ---------------------------------------------------------------- console input

\* The decimal digits and their values.
DigitValue ==
    [d \in {"0", "1", "2", "3", "4", "5", "6", "7", "8", "9"} |->
        CASE d = "0" -> 0 [] d = "1" -> 1 [] d = "2" -> 2 [] d = "3" -> 3 [] d = "4" -> 4
          [] d = "5" -> 5 [] d = "6" -> 6 [] d = "7" -> 7 [] d = "8" -> 8 [] d = "9" -> 9]

\* The digit loop of i32::from_str, left to right over the characters after the
\* sign, with acc the value so far (never positive when the sign is minus): a
\* character that is no digit is InvalidDigit; a digit that takes the value out
\* of i32 is PosOverflow, or NegOverflow under a minus sign. The test is made
\* before the value is computed, so nothing outside i32 is ever computed.
RECURSIVE ParseDigits(_, _, _)
ParseDigits(s, acc, negative) ==
    IF s = <<>> THEN Ok(acc)
    ELSE IF Head(s) \notin DOMAIN DigitValue THEN Err(<<"invalid digit found in string">>)
    ELSE LET d == DigitValue[Head(s)]
         IN  IF negative
             THEN IF acc < ((((0 - 2147483647) - 1) + d) + 9) \div 10
                  THEN Err(<<"number too small to fit in target type">>)
                  ELSE ParseDigits(Tail(s), 10 * acc - d, TRUE)
             ELSE IF acc > (2147483647 - d) \div 10
                  THEN Err(<<"number too large to fit in target type">>)
                  ELSE ParseDigits(Tail(s), 10 * acc + d, FALSE)

\* input.trim().parse::<i32>(): the empty string is Empty, a lone sign is
\* InvalidDigit, and otherwise an optional sign is followed by the digit loop.
parse_number(line) ==
    LET t == trim(line)
    IN  IF t = <<>> THEN Err(<<"cannot parse integer from empty string">>)
        ELSE IF t = <<"+">> \/ t = <<"-">> THEN Err(<<"invalid digit found in string">>)
        ELSE IF Head(t) = "-" THEN ParseDigits(Tail(t), 0, TRUE)
        ELSE IF Head(t) = "+" THEN ParseDigits(Tail(t), 0, FALSE)
        ELSE ParseDigits(t, 0, FALSE)

\* The lines the operator may type at the count prompt (the empty one is end of input).
NumberLines ==
    {<<"2", "\n">>, <<" ", "2", " ", "\n">>, <<"+", "2", "\n">>, <<"a", "\n">>,
     <<"2", "a", "\n">>, <<"2", " ", "2", "\n">>, <<"-", "\n">>, <<"+", "-", "2", "\n">>,
     <<"\n">>, <<>>,
     <<"2", "1", "4", "7", "4", "8", "3", "6", "4", "8", "\n">>,
     <<"-", "2", "1", "4", "7", "4", "8", "3", "6", "4", "9", "\n">>,
     <<"9", "9", "9", "9", "9", "9", "9", "9", "9", "9", "9", "a", "\n">>}

\* ---------------------------------------------------------------- get_spotify_access

\* fn get_spotify_access: send()? then json()?; the status is never looked at.
get_spotify_access(resp) ==
    IF ~resp.sent THEN Err(<<"transport error">>)
    ELSE IF ~resp.decodes THEN Err(<<"decode error">>)
    ELSE Ok(resp.body[1])

\* What the token endpoint may answer.
TokenResponses ==
    {Transport, Http(200, TRUE, <<"token">>), Http(200, FALSE, <<>>), Http(401, FALSE, <<>>)}

\* ---------------------------------------------------------------- get_playlist

\* fn get_playlist: Ok(playlist) on 200 with a decodable body, Err(message) otherwise.
get_playlist(resp) ==
    IF ~resp.sent THEN Err(<<"transport error">>)
    ELSE IF resp.status = 200 THEN
        IF resp.decodes THEN Ok(resp.body) ELSE Err(<<"decode error">>)
    ELSE IF resp.status = 404 THEN
        Err(<<"Invalid Playlist ID: The playlist could not be found.">>)
    ELSE Err(<<"Error fetching playlist: ", StatusText(resp.status)>>)

\* artist_names.join(", ")
RECURSIVE join(_)
join(names) ==
    IF names = <<>> THEN <<>>
    ELSE IF Len(names) = 1 THEN <<names[1]>>
    ELSE <<names[1], ", ">> \o join(Tail(names))

\* The loop of main over playlist_response.tracks.items:
\* output.push_str("{name} by {artists joined}, ") for every item, in order.
RECURSIVE render(_)
render(items) ==
    IF items = <<>> THEN <<>>
    ELSE <<Head(items).name, " by ">> \o join(Head(items).artists) \o <<", ">>
         \o render(Tail(items))

Tracks ==
    {[name |-> "Song1", artists |-> <<"ArtistA">>],
     [name |-> "Song2", artists |-> <<"ArtistB", "ArtistC">>]}

\* What the playlist endpoint may answer.
PlaylistResponses ==
    {Transport, Http(200, FALSE, <<>>), Http(404, FALSE, <<>>), Http(500, FALSE, <<>>)}
    \cup {Http(200, TRUE, items) : items \in SeqsUpTo(Tracks, MaxTracks)}

\* ---------------------------------------------------------------- ask_llm

\* A slip of ask_llm: the status check left out, as in get_spotify_access.
ask_llm_unchecked(resp) ==
    IF ~resp.sent THEN Err(<<"transport error">>)
    ELSE IF ~resp.decodes THEN Err(<<"Failed to parse response: ", "decode error">>)
    ELSE IF resp.body # <<>> THEN Ok(resp.body[1])
    ELSE Err(<<"No response choices available">>)

\* fn ask_llm: the first choice's content on a success status, Err(message) otherwise.
ask_llm(resp) ==
    IF ~resp.sent THEN Err(<<"transport error">>)
    ELSE IF is_success(resp.status) THEN
        IF ~resp.decodes THEN Err(<<"Failed to parse response: ", "decode error">>)
        ELSE IF resp.body # <<>> THEN Ok(resp.body[1])
        ELSE Err(<<"No response choices available">>)
    ELSE Err(<<StatusText(resp.status)>>)

\* ---------------------------------------------------------------- serde_json::from_str

\* The song objects an answer may hold, by token.
Song ==
    [tok \in {"s1", "s2"} |->
        IF tok = "s1" THEN [name |-> "Song3", artist |-> "ArtistC"]
        ELSE [name |-> "Song4", artist |-> "ArtistD"]]

\* JSON's insignificant whitespace, among the characters of the model.
JsonWhitespace == {" ", "\n"}

NotJsonWhitespace(c) == c \notin JsonWhitespace

\* serde_json::from_str::<LlmSongsResponse>: whitespace between tokens is skipped;
\* the text must be exactly one object {songs: [song, ...]}, anything else (other
\* characters before or after, another shape, an unfinished document) is an error.
from_str(text) ==
    LET t == SelectSeq(text, NotJsonWhitespace)
    IN  IF /\ Len(t) >= 2
           /\ Head(t) = "{songs:["
           /\ Last(t) = "]}"
           /\ \A i \in 2..(Len(t) - 1) : t[i] \in DOMAIN Song
        THEN Ok([i \in 1..(Len(t) - 2) |-> Song[t[i + 1]]])
        ELSE Err(<<"decode error">>)

\* The document {"songs": [...]} for a list of song tokens.
Document(toks) == <<"{songs:[">> \o toks \o <<"]}">>

\* How an answer may wrap its document: nothing, one backtick each side (the
\* spec's example), blanks, a bare code fence, backticks and blanks, and a code
\* fence with a language tag.
Wrappers ==
    {<< <<>>, <<>> >>,
     << <<BT>>, <<BT>> >>,
     << <<" ">>, <<"\n">> >>,
     << <<BT, BT, BT>>, <<BT, BT, BT>> >>,
     << <<"\n", BT, " ">>, <<" ", BT, "\n">> >>,
     << <<BT, BT, BT, "json", "\n">>, <<"\n", BT, BT, BT>> >>}

\* The texts the LLM may answer with: a wrapped document, or no document at all.
LlmTexts ==
    {w[1] \o Document(toks) \o w[2] : w \in Wrappers, toks \in SeqsUpTo(DOMAIN Song, MaxSongs)}
    \cup {<<>>, <<"not json">>, <<"{tracks:[", "]}">>, <<"{songs:[", "s1">>,
          <<BT, "{songs:[", "s1", BT, "s2", "]}", BT>>}

\* What the chat endpoint may answer.
LlmResponses ==
    {Transport, Http(200, FALSE, <<>>), Http(200, TRUE, <<>>), Http(500, FALSE, <<>>),
     Http(500, TRUE, <<Document(<<"s1">>)>>),
     Http(200, TRUE, <<Document(<<"s2">>), Document(<<"s1">>)>>)}
    \cup {Http(200, TRUE, <<t>>) : t \in LlmTexts}

\* ---------------------------------------------------------------- search_song

\* fn search_song: the first item's uri on 200 with a non-empty result, Err(message) otherwise.
search_song(resp) ==
    IF ~resp.sent THEN Err(<<"transport error">>)
    ELSE IF resp.status = 200 THEN
        IF ~resp.decodes THEN Err(<<"decode error">>)
        ELSE IF resp.body # <<>> THEN Ok(resp.body[1])
        ELSE Err(<<"No result found for the specified artist and track.">>)
    ELSE IF resp.status = 404 THEN
        Err(<<"No results found for the specified artist and track.">>)
    ELSE Err(<<StatusText(resp.status)>>)

\* The track uris of the catalog.
Uris == {"spotify:track:111", "spotify:track:999"}

\* What the search endpoint may answer (limit=1: one item at most).
SearchResponses ==
    {Transport, Http(200, FALSE, <<>>), Http(200, TRUE, <<>>), Http(404, FALSE, <<>>),
     Http(500, FALSE, <<>>)}
    \cup {Http(200, TRUE, <<u>>) : u \in Uris}

\* ---------------------------------------------------------------- add_to_playlist

\* fn add_to_playlist: Ok(()) on a success status, Err(message) otherwise.
add_to_playlist(resp) ==
    IF ~resp.sent THEN Err(<<"transport error">>)
    ELSE IF is_success(resp.status) THEN Ok(<<>>)
    ELSE Err(<<"Failed to add tracks to playlist: ", StatusText(resp.status)>>)

\* What the add-tracks endpoint may answer.
AddResponses == {Transport, Http(201, FALSE, <<>>), Http(401, FALSE, <<>>), Http(500, FALSE, <<>>)}

\* ---------------------------------------------------------------- main

\* println!: one more line on standard output, tagged with the step it reports.
Println(src, text) == Append(stdout, [src |-> src, text |-> text])

\* One more HTTP call in the history: the function, the answer it got, and
\* whether it returned Ok.
Called(fn, resp, ok) == Append(calls, [fn |-> fn, resp |-> resp, ok |-> ok])

\* main returns Ok(()), returns Err (the `?` operator), or panics (expect).
Exit(code) == pc' = "exit" /\ exit_code' = code

Init ==
    /\ pc = "load_env"
    /\ exit_code = "running"
    /\ number = 0
    /\ access_token = ""
    /\ output = <<>>
    /\ response = <<>>
    /\ cleaned_response = <<>>
    /\ llm_songs = <<>>
    /\ idx = 1
    /\ uris_to_add = <<>>
    /\ stdout = <<>>
    /\ calls = <<>>
    /\ searched = <<>>
    /\ results = <<>>
    /\ prompts = <<>>
    /\ add_bodies = <<>>

\* dotenv().ok() and the five env::var(..).expect(..): a missing variable panics.
LoadEnv ==
    /\ pc = "load_env"
    /\ \E present \in BOOLEAN :
        IF present
        THEN /\ pc' = "read_number"
             /\ stdout' = Println("main", <<"Enter the number of songs you want to add to the playlist:">>)
             /\ UNCHANGED exit_code
        ELSE /\ Exit("panic")
             /\ UNCHANGED stdout
    /\ UNCHANGED <<number, access_token, output, response, cleaned_response, llm_songs,
                   idx, uris_to_add, calls, searched, results, prompts, add_bodies>>

\* read_line, input.trim().parse().expect(..), then the authorization URL and
\* the prompt for the code are printed.
ReadNumber ==
    /\ pc = "read_number"
    /\ \E line \in NumberLines :
        LET parsed == parse_number(line)
        IN  IF parsed.ok
            THEN /\ number' = parsed.val
                 /\ pc' = "read_code"
                 /\ stdout' = Append(Println("main", <<"Go to this URL to authorize: ">>),
                                     [src |-> "main", text |-> <<"Enter the authorization code:">>])
                 /\ UNCHANGED exit_code
            ELSE /\ Exit("panic")
                 /\ UNCHANGED <<number, stdout>>
    /\ UNCHANGED <<access_token, output, response, cleaned_response, llm_songs,
                   idx, uris_to_add, calls, searched, results, prompts, add_bodies>>

\* std::io::stdin().read_line(&mut code)?: an I/O error returns Err from main.
ReadCode ==
    /\ pc = "read_code"
    /\ \E read_ok \in BOOLEAN :
        IF read_ok
        THEN pc' = "get_spotify_access" /\ UNCHANGED exit_code
        ELSE Exit("failure")
    /\ UNCHANGED <<number, access_token, output, response, cleaned_response, llm_songs,
                   idx, uris_to_add, stdout, calls, searched, results, prompts, add_bodies>>

\* let access_token = get_spotify_access(..)?;
GetSpotifyAccess ==
    /\ pc = "get_spotify_access"
    /\ \E resp \in TokenResponses :
        LET res == get_spotify_access(resp)
        IN  /\ calls' = Called("get_spotify_access", resp, res.ok)
            /\ IF res.ok
               THEN /\ access_token' = res.val
                    /\ pc' = "get_playlist"
                    /\ UNCHANGED exit_code
               ELSE /\ Exit("failure")
                    /\ UNCHANGED access_token
    /\ UNCHANGED <<number, output, response, cleaned_response, llm_songs,
                   idx, uris_to_add, stdout, searched, results, prompts, add_bodies>>

\* A slip of the playlist step: the error propagated with `?` instead of printed.
GetPlaylistPropagate ==
    /\ pc = "get_playlist"
    /\ \E resp \in PlaylistResponses :
        LET res == get_playlist(resp)
        IN  /\ calls' = Called("get_playlist", resp, res.ok)
            /\ IF res.ok
               THEN /\ output' = render(res.val)
                    /\ pc' = "ask_llm"
                    /\ UNCHANGED exit_code
               ELSE /\ Exit("failure")
                    /\ UNCHANGED output
    /\ UNCHANGED <<number, access_token, response, cleaned_response, llm_songs,
                   idx, uris_to_add, stdout, searched, results, prompts, add_bodies>>

\* match get_playlist(..): Ok renders the listing into output, Err prints the message.
GetPlaylist ==
    /\ pc = "get_playlist"
    /\ \E resp \in PlaylistResponses :
        LET res == get_playlist(resp)
        IN  /\ calls' = Called("get_playlist", resp, res.ok)
            /\ IF res.ok
               THEN /\ output' = render(res.val)
                    /\ UNCHANGED stdout
               ELSE /\ stdout' = Println("get_playlist", res.err)
                    /\ UNCHANGED output
    /\ pc' = "ask_llm"
    /\ UNCHANGED <<exit_code, number, access_token, response, cleaned_response, llm_songs,
                   idx, uris_to_add, searched, results, prompts, add_bodies>>

\* A slip of the LLM step: the error propagated with `?` instead of printed.
AskLlmPropagate ==
    /\ pc = "ask_llm"
    /\ \E resp \in LlmResponses :
        LET res == ask_llm(resp)
        IN  /\ calls' = Called("ask_llm", resp, res.ok)
            /\ prompts' = Append(prompts, [number |-> number, playlist |-> output])
            /\ IF res.ok
               THEN /\ response' = res.val
                    /\ pc' = "from_str"
                    /\ UNCHANGED exit_code
               ELSE /\ Exit("failure")
                    /\ UNCHANGED response
    /\ UNCHANGED <<number, access_token, output, cleaned_response, llm_songs,
                   idx, uris_to_add, stdout, searched, results, add_bodies>>

\* The prompt is built from number and output; match ask_llm(..): Ok goes on to
\* the decode, Err prints the message and falls through to the write step.
AskLlm ==
    /\ pc = "ask_llm"
    /\ \E resp \in LlmResponses :
        LET res == ask_llm(resp)
        IN  /\ calls' = Called("ask_llm", resp, res.ok)
            /\ prompts' = Append(prompts, [number |-> number, playlist |-> output])
            /\ IF res.ok
               THEN /\ response' = res.val
                    /\ pc' = "from_str"
                    /\ UNCHANGED stdout
               ELSE /\ stdout' = Println("ask_llm", res.err)
                    /\ pc' = "add_to_playlist"
                    /\ UNCHANGED response
    /\ UNCHANGED <<exit_code, number, access_token, output, cleaned_response, llm_songs,
                   idx, uris_to_add, searched, results, add_bodies>>

\* A slip of the decode step: the decode error caught and printed like the
\* others, and the run carried on with no songs.
FromStrCaught ==
    /\ pc = "from_str"
    /\ LET cleaned == parse_llm_response(response).val
           decoded == from_str(cleaned)
       IN  /\ cleaned_response' = cleaned
           /\ IF decoded.ok
              THEN /\ llm_songs' = decoded.val
                   /\ pc' = IF decoded.val = <<>> THEN "add_to_playlist" ELSE "search_song"
                   /\ UNCHANGED stdout
              ELSE /\ stdout' = Println("from_str", decoded.err)
                   /\ pc' = "add_to_playlist"
                   /\ UNCHANGED llm_songs
    /\ idx' = 1
    /\ UNCHANGED <<exit_code, number, access_token, output, response, uris_to_add,
                   calls, searched, results, prompts, add_bodies>>

\* match parse_llm_response(&response) { Ok(cleaned_response) => serde_json::from_str(..)?:
\* a decode error returns Err from main; otherwise the loop over the songs starts.
FromStr ==
    /\ pc = "from_str"
    /\ LET cleaned == parse_llm_response(response).val
           decoded == from_str(cleaned)
       IN  /\ cleaned_response' = cleaned
           /\ IF decoded.ok
              THEN /\ llm_songs' = decoded.val
                   /\ pc' = IF decoded.val = <<>> THEN "add_to_playlist" ELSE "search_song"
                   /\ UNCHANGED exit_code
              ELSE /\ Exit("failure")
                   /\ UNCHANGED llm_songs
    /\ idx' = 1
    /\ UNCHANGED <<number, access_token, output, response, uris_to_add, stdout,
                   calls, searched, results, prompts, add_bodies>>

\* A slip of the loop: a failed search is replaced by a placeholder uri.
PushSubstitute(uris, res) ==
    Append(uris, IF res.ok THEN res.val ELSE "spotify:track:unknown")

\* Ok(uri) => uris_to_add.push(uri); an Err pushes nothing.
Push(uris, res) == IF res.ok THEN Append(uris, res.val) ELSE uris

\* A slip of the loop: the first failed search ends it.
AfterSearchBreak(i, n, res) ==
    IF i < n /\ res.ok THEN "search_song" ELSE "add_to_playlist"

\* Where main goes after the search of song i of n, whatever its result res:
\* to the next song, or past the loop.
AfterSearch(i, n, res) == IF i < n THEN "search_song" ELSE "add_to_playlist"

\* A slip of the loop: every resolved uri is written at once, in a call of its own.
SearchSongEager ==
    /\ pc = "search_song"
    /\ idx <= Len(llm_songs)
    /\ \E resp \in SearchResponses :
        LET song == llm_songs[idx]
            res == search_song(resp)
        IN  /\ searched' = Append(searched, <<song.artist, song.name>>)
            /\ results' = Append(results, res)
            /\ calls' = IF res.ok
                        THEN Append(Called("search_song", resp, res.ok),
                                    [fn |-> "add_to_playlist", resp |-> Http(201, FALSE, <<>>), ok |-> TRUE])
                        ELSE Called("search_song", resp, res.ok)
            /\ add_bodies' = IF res.ok THEN Append(add_bodies, <<res.val>>) ELSE add_bodies
            /\ uris_to_add' = uris_to_add
            /\ stdout' = IF res.ok THEN stdout
                         ELSE Println("search_song",
                                      <<"Error finding song '", song.name, " - ", song.artist, "': ">> \o res.err)
            /\ pc' = AfterSearch(idx, Len(llm_songs), res)
    /\ idx' = idx + 1
    /\ UNCHANGED <<exit_code, number, access_token, output, response, cleaned_response,
                   llm_songs, prompts>>

\* One iteration of `for song in llm_songs.songs`: search_song(token, artist, name),
\* then push the uri or print the error.
SearchSong ==
    /\ pc = "search_song"
    /\ idx <= Len(llm_songs)
    /\ \E resp \in SearchResponses :
        LET song == llm_songs[idx]
            res == search_song(resp)
        IN  /\ searched' = Append(searched, <<song.artist, song.name>>)
            /\ results' = Append(results, res)
            /\ calls' = Called("search_song", resp, res.ok)
            /\ uris_to_add' = Push(uris_to_add, res)
            /\ stdout' = IF res.ok THEN stdout
                         ELSE Println("search_song",
                                      <<"Error finding song '", song.name, " - ", song.artist, "': ">> \o res.err)
            /\ pc' = AfterSearch(idx, Len(llm_songs), res)
    /\ idx' = idx + 1
    /\ UNCHANGED <<exit_code, number, access_token, output, response, cleaned_response,
                   llm_songs, prompts, add_bodies>>

\* A slip of the write step: the call is made whatever the list holds.
ShouldAddAlways(uris) == TRUE

\* if !uris_to_add.is_empty()
ShouldAdd(uris) == uris # <<>>

\* A slip of the write step: the error propagated with `?` instead of printed.
AddToPlaylistPropagate ==
    /\ pc = "add_to_playlist"
    /\ IF ShouldAdd(uris_to_add)
       THEN \E resp \in AddResponses :
               LET res == add_to_playlist(resp)
               IN  /\ calls' = Called("add_to_playlist", resp, res.ok)
                   /\ add_bodies' = Append(add_bodies, uris_to_add)
                   /\ IF res.ok
                      THEN /\ stdout' = Println("add_to_playlist", <<"Successfully added songs to the playlist.">>)
                           /\ Exit("zero")
                      ELSE /\ UNCHANGED stdout
                           /\ Exit("failure")
       ELSE /\ UNCHANGED <<calls, add_bodies, stdout>>
            /\ Exit("zero")
    /\ UNCHANGED <<number, access_token, output, response, cleaned_response, llm_songs,
                   idx, uris_to_add, searched, results, prompts>>

\* The write step and the end of main: when the list is not empty, one
\* add_to_playlist call with all of it and a line for its outcome; then Ok(()).
AddToPlaylist ==
    /\ pc = "add_to_playlist"
    /\ IF ShouldAdd(uris_to_add)
       THEN \E resp \in AddResponses :
               LET res == add_to_playlist(resp)
               IN  /\ calls' = Called("add_to_playlist", resp, res.ok)
                   /\ add_bodies' = Append(add_bodies, uris_to_add)
                   /\ stdout' = Println("add_to_playlist",
                                        IF res.ok
                                        THEN <<"Successfully added songs to the playlist.">>
                                        ELSE res.err)
       ELSE UNCHANGED <<calls, add_bodies, stdout>>
    /\ Exit("zero")
    /\ UNCHANGED <<number, access_token, output, response, cleaned_response, llm_songs,
                   idx, uris_to_add, searched, results, prompts>>

Next ==
    \/ LoadEnv
    \/ ReadNumber
    \/ ReadCode
    \/ GetSpotifyAccess
    \/ GetPlaylist
    \/ AskLlm
    \/ FromStr
    \/ SearchSong
    \/ AddToPlaylist

Spec == Init /\ [][Next]_vars

\* ---------------------------------------------------------------- parse_llm_response alone

\* The characters of the texts given to parse_llm_response on its own.
Chars == {" ", "\n", BT, "a"}

\* Any text of at most MaxLen characters is about to be cleaned.
InitClean ==
    /\ pc = "clean"
    /\ response \in SeqsUpTo(Chars, MaxLen)
    /\ exit_code = "running"
    /\ number = 0
    /\ access_token = ""
    /\ output = <<>>
    /\ cleaned_response = <<>>
    /\ llm_songs = <<>>
    /\ idx = 1
    /\ uris_to_add = <<>>
    /\ stdout = <<>>
    /\ calls = <<>>
    /\ searched = <<>>
    /\ results = <<>>
    /\ prompts = <<>>
    /\ add_bodies = <<>>

\* parse_llm_response(&response) is called and returns.
Clean ==
    /\ pc = "clean"
    /\ LET res == parse_llm_response(response)
       IN  /\ cleaned_response' = res.val
           /\ pc' = IF res.ok THEN "cleaned" ELSE "clean_failed"
    /\ UNCHANGED <<exit_code, number, access_token, output, response, llm_songs, idx,
                   uris_to_add, stdout, calls, searched, results, prompts, add_bodies>>

NextClean == Clean

SpecClean == InitClean /\ [][NextClean]_vars

\* ---------------------------------------------------------------- properties

\* The positions of the history that hold a call of fn.
CallsOf(fn) == {i \in DOMAIN calls : calls[i].fn = fn}

\* The answer was a transport error or a non-success status.
HttpFailed(resp) == ~resp.sent \/ ~is_success(resp.status)

\* The uris of the successful searches, in the order of the searches.
RECURSIVE Resolved(_)
Resolved(rs) ==
    IF rs = <<>> THEN <<>>
    ELSE IF Last(rs).ok THEN Append(Resolved(Front(rs)), Last(rs).val)
    ELSE Resolved(Front(rs))

\* The LLM call was made and failed: a transport error, a non-success status,
\* an undecodable body or no choice.
LlmFailed ==
    \E i \in CallsOf("ask_llm") :
        \/ HttpFailed(calls[i].resp)
        \/ ~calls[i].resp.decodes
        \/ calls[i].resp.body = <<>>

\* The LLM call returned a text, the decode of the cleaned text was attempted
\* and it failed.
DecodeFailed ==
    /\ \E i \in CallsOf("ask_llm") : calls[i].ok
    /\ pc # "from_str"
    /\ ~from_str(parse_llm_response(response).val).ok

\* The playlist fetch was made and failed: 404, another status, an undecodable
\* body or a transport error.
PlaylistFailed ==
    \E i \in CallsOf("get_playlist") :
        ~(calls[i].resp.sent /\ calls[i].resp.status = 200 /\ calls[i].resp.decodes)

\* C1: every add_to_playlist body is exactly the uris that search_song returned
\* successfully for this run's suggestions, in order, one search per suggestion;
\* a failed search contributes nothing, and the list being built is always the
\* uris resolved so far.
C1_OnlyResolvedUris ==
    /\ uris_to_add = Resolved(results)
    /\ Len(results) = Len(searched)
    /\ Len(results) <= Len(llm_songs)
    /\ \A k \in DOMAIN add_bodies :
        /\ add_bodies[k] = Resolved(results)
        /\ \A n \in DOMAIN add_bodies[k] :
            \E i \in DOMAIN results : results[i].ok /\ results[i].val = add_bodies[k][n]

\* C1 witness: a batch was sent after one search failed and one succeeded.
C1_Witness ==
    /\ add_bodies # <<>>
    /\ \E i \in DOMAIN results : ~results[i].ok
    /\ \E i \in DOMAIN results : results[i].ok

\* C2: a finished run has made no add_to_playlist call when the resolved list is
\* empty and exactly one, carrying the whole list, when it is not; no call is
\* made before the loop is over.
C2_AddCallCount ==
    /\ pc # "exit" => add_bodies = <<>>
    /\ pc = "exit" =>
        /\ Len(add_bodies) = (IF uris_to_add = <<>> THEN 0 ELSE 1)
        /\ Cardinality(CallsOf("add_to_playlist")) = Len(add_bodies)
        /\ \A k \in DOMAIN add_bodies : add_bodies[k] = uris_to_add

\* C2 witness: a run in which only a subset of the suggestions resolved made its
\* single call.
C2_Witness ==
    /\ pc = "exit"
    /\ Len(add_bodies) = 1
    /\ Len(add_bodies[1]) >= 1
    /\ Len(add_bodies[1]) < Len(llm_songs)

\* C3: the searches made so far are those of the first suggestions, one each, in
\* list order; inside the loop exactly the songs before the current one have
\* been searched, and past the loop every suggestion has, whatever failed.
C3_EachSearchedOnce ==
    /\ Len(searched) <= Len(llm_songs)
    /\ \A i \in DOMAIN searched : searched[i] = <<llm_songs[i].artist, llm_songs[i].name>>
    /\ Cardinality(CallsOf("search_song")) = Len(searched)
    /\ pc = "search_song" => Len(searched) = idx - 1 /\ idx <= Len(llm_songs)
    /\ pc \in {"add_to_playlist", "exit"} => Len(searched) = Len(llm_songs)

\* C3 witness: the loop went on to the last suggestion after the first search failed.
C3_Witness ==
    /\ pc = "add_to_playlist"
    /\ Len(llm_songs) >= 2
    /\ ~results[1].ok
    /\ Len(searched) = Len(llm_songs)

\* C4: once the LLM call has failed, its error is the last line printed, no
\* search_song and no add_to_playlist call is ever made, and the run goes on
\* to end with status zero.
C4_LlmFailureSkips ==
    LlmFailed =>
        /\ stdout # <<>> /\ Last(stdout).src = "ask_llm"
        /\ CallsOf("search_song") = {} /\ searched = <<>>
        /\ CallsOf("add_to_playlist") = {} /\ add_bodies = <<>>
        /\ \/ pc = "add_to_playlist" /\ exit_code = "running"
           \/ pc = "exit" /\ exit_code = "zero"

\* C4 witness: a run ended after the LLM answered HTTP 500.
C4_Witness ==
    /\ pc = "exit"
    /\ \E i \in CallsOf("ask_llm") : calls[i].resp.sent /\ calls[i].resp.status = 500
    /\ Last(stdout).text = <<"500 Internal Server Error">>

\* C5: when the cleaned LLM text does not decode, the run has ended with a
\* failure exit, with no suggestion, no search_song call and no
\* add_to_playlist call: the LLM call is the last call of the run.
C5_DecodeFailureAborts ==
    DecodeFailed =>
        /\ pc = "exit" /\ exit_code = "failure"
        /\ llm_songs = <<>>
        /\ searched = <<>> /\ add_bodies = <<>>
        /\ Last(calls).fn = "ask_llm"

\* C5 witness: the answer was a fenced document with a language tag, which the
\* cleaning leaves undecodable.
C5_Witness ==
    /\ DecodeFailed
    /\ response = <<BT, BT, BT, "json", "\n">> \o Document(<<"s1">>) \o <<"\n", BT, BT, BT>>
    /\ cleaned_response = <<"json", "\n">> \o Document(<<"s1">>) \o <<"\n">>

\* The step made the HTTP call fn and got a transport error or a non-success status.
FailedCallStep(fn) ==
    /\ Len(calls') = Len(calls) + 1
    /\ Last(calls').fn = fn
    /\ HttpFailed(Last(calls').resp)

\* The step printed one line about fn and main went on, to the step `next`.
CaughtAndPrinted(fn, next) ==
    /\ Len(stdout') = Len(stdout) + 1
    /\ Last(stdout').src = fn
    /\ exit_code' \in {"running", "zero"}
    /\ pc' = next

\* Where main goes after each call when it goes on.
StepAfter(fn) ==
    CASE fn = "get_spotify_access" -> "get_playlist"
      [] fn = "get_playlist" -> "ask_llm"
      [] fn = "ask_llm" -> "add_to_playlist"
      [] fn = "search_song" -> IF idx < Len(llm_songs) THEN "search_song" ELSE "add_to_playlist"
      [] fn = "add_to_playlist" -> "exit"

\* C6 as stated: whichever of the five HTTP calls gets a transport error or a
\* non-success status, the step prints a line about it and main goes on.
C6_Original ==
    [][\A fn \in {"get_spotify_access", "get_playlist", "ask_llm", "search_song", "add_to_playlist"} :
          FailedCallStep(fn) => CaughtAndPrinted(fn, StepAfter(fn))]_vars

\* C6 amended: for the four calls after the token exchange (playlist fetch, LLM
\* chat, track search, add tracks) a transport error or a non-success status is
\* caught and printed and main goes on to the next step or iteration; a failed
\* token exchange is not caught: main returns the error and nothing is printed.
C6_CaughtAfterToken ==
    [][/\ \A fn \in {"get_playlist", "ask_llm", "search_song", "add_to_playlist"} :
            FailedCallStep(fn) => CaughtAndPrinted(fn, StepAfter(fn))
       /\ (Len(calls') = Len(calls) + 1 /\ Last(calls').fn = "get_spotify_access"
           /\ ~(Last(calls').resp.sent /\ Last(calls').resp.decodes))
          => (pc' = "exit" /\ exit_code' = "failure" /\ stdout' = stdout)]_vars

\* C6 witness: a run went to its end through a failed playlist fetch, a failed
\* search and a failed add-tracks call, each printed.
C6_Witness ==
    /\ pc = "exit" /\ exit_code = "zero"
    /\ \A fn \in {"get_playlist", "search_song", "add_to_playlist"} :
        /\ \E i \in CallsOf(fn) : HttpFailed(calls[i].resp)
        /\ \E k \in DOMAIN stdout : stdout[k].src = fn

\* The configuration was present and the count was numeric: main got as far as
\* asking for the authorization code.
ConfigAndCountOk ==
    \E k \in DOMAIN stdout : stdout[k].text = <<"Enter the authorization code:">>

\* The authorization code was read and exchanged for a token.
TokenOk == \E i \in CallsOf("get_spotify_access") : calls[i].ok

\* The last line printed reports the playlist-write step.
FinalLinePrinted == stdout # <<>> /\ Last(stdout).src = "add_to_playlist"

\* C7 as stated, read in its favour (the token exchange, which the claim does
\* not list among the fatal errors, is taken to have succeeded too): a finished
\* run with the configuration present, a numeric count, a token and no failed
\* decode has printed a final line for the write step and exited zero.
C7_Original ==
    (pc = "exit" /\ ConfigAndCountOk /\ TokenOk /\ ~DecodeFailed) =>
        (exit_code = "zero" /\ FinalLinePrinted)

\* C7 amended: a finished run with the configuration present, a numeric count,
\* the token obtained and no failed decode has exited zero, and its last line
\* reports the write step exactly when at least one uri was resolved.
C7_ExitsZero ==
    (pc = "exit" /\ ConfigAndCountOk /\ TokenOk /\ ~DecodeFailed) =>
        /\ exit_code = "zero"
        /\ FinalLinePrinted <=> uris_to_add # <<>>

\* C7 witness: a run exited zero with a final line after a failed playlist fetch
\* and a failed search.
C7_Witness ==
    /\ pc = "exit" /\ exit_code = "zero"
    /\ FinalLinePrinted
    /\ PlaylistFailed
    /\ \E i \in DOMAIN results : ~results[i].ok

\* C8 as stated: the result is the trimmed text with one backtick at most taken
\* from each end.
C8_Original ==
    pc # "clean" => cleaned_response = StripOneEnd(StripOneStart(trim(response)))

\* C8 amended: the call never fails and the text splits, in order, into
\* whitespace, backticks, the result, backticks, whitespace, where the whitespace
\* runs are all the whitespace at the ends and the result neither starts nor
\* ends with a backtick: every backtick at either end of the trimmed text is
\* removed, and what lies between is untouched.
C8_StripsAllBackticks ==
    pc # "clean" =>
        /\ pc = "cleaned"
        /\ \E m \in 1..(Len(response) + 1), n \in 0..Len(response) :
           \E lo \in m..(Len(response) + 1), hi \in 0..n :
            /\ lo <= hi + 1
            /\ \A k \in 1..(m - 1) : response[k] \in Whitespace
            /\ \A k \in (n + 1)..Len(response) : response[k] \in Whitespace
            /\ m <= n => (response[m] \notin Whitespace /\ response[n] \notin Whitespace)
            /\ \A k \in m..(lo - 1) : response[k] = BT
            /\ \A k \in (hi + 1)..n : response[k] = BT
            /\ cleaned_response = SubSeq(response, lo, hi)
            /\ cleaned_response # <<>> =>
                (Head(cleaned_response) # BT /\ Last(cleaned_response) # BT)

\* C8 witness: two leading backticks and one trailing were all removed.
C8_Witness ==
    /\ pc = "cleaned"
    /\ response = <<BT, BT, "a", BT>>
    /\ cleaned_response = <<"a">>

\* The place of each call in the pipeline.
Rank(fn) ==
    CASE fn = "get_spotify_access" -> 1
      [] fn = "get_playlist" -> 2
      [] fn = "ask_llm" -> 3
      [] fn = "search_song" -> 4
      [] fn = "add_to_playlist" -> 5

\* C9: the calls are made in pipeline order (token exchange, playlist fetch, LLM
\* chat, the searches, add tracks), a call is made only after the calls before
\* it in the pipeline, and only search_song is called more than once.
C9_PipelineOrder ==
    /\ \A i, j \in DOMAIN calls :
        i < j => /\ Rank(calls[i].fn) <= Rank(calls[j].fn)
                 /\ Rank(calls[i].fn) = Rank(calls[j].fn) => calls[i].fn = "search_song"
    /\ \A j \in DOMAIN calls :
        /\ Rank(calls[j].fn) >= 2 => \E i \in 1..(j - 1) : calls[i].fn = "get_spotify_access"
        /\ Rank(calls[j].fn) >= 3 => \E i \in 1..(j - 1) : calls[i].fn = "get_playlist"
        /\ Rank(calls[j].fn) >= 4 => \E i \in 1..(j - 1) : calls[i].fn = "ask_llm"
        /\ Rank(calls[j].fn) >= 5 => \E i \in 1..(j - 1) : calls[i].fn = "search_song"

\* C9 witness: a run made all five kinds of call, two searches among them.
C9_Witness ==
    /\ Len(calls) = 6
    /\ calls[6].fn = "add_to_playlist"
    /\ Cardinality(CallsOf("search_song")) = 2

\* C10: once the playlist fetch has failed, its message has been printed, the
\* listing is the empty string, main is at the LLM call or has made it, and
\* every prompt sent carries the empty listing.
C10_PlaylistFailureProceeds ==
    PlaylistFailed =>
        /\ \E k \in DOMAIN stdout :
            /\ stdout[k].src = "get_playlist"
            /\ \E i \in CallsOf("get_playlist") : stdout[k].text = get_playlist(calls[i].resp).err
        /\ output = <<>>
        /\ pc = "ask_llm" \/ CallsOf("ask_llm") # {}
        /\ \A k \in DOMAIN prompts : prompts[k].playlist = <<>>

\* C10 witness: after a failed playlist fetch (404) the run searched and wrote
\* to the playlist.
C10_Witness ==
    /\ \E i \in CallsOf("get_playlist") : calls[i].resp.sent /\ calls[i].resp.status = 404
    /\ Len(prompts) = 1
    /\ CallsOf("search_song") # {}
    /\ \E i \in CallsOf("add_to_playlist") : calls[i].ok

====
